---- MODULE Spec2Model ----
(***************************************************************************)
(* Verification model of the vs_rs graph-to-script compiler.               *)
(*                                                                         *)
(* The Function Catalog is a slot map FunctionId -> GraphFunction; every   *)
(* function owns a node graph (nodes, input ports, output ports, the       *)
(* connection map InputId -> OutputId).  The editor grows the graphs       *)
(* (create node, connect, edit an inline value) and `compile` walks them.  *)
(*                                                                         *)
(* Texts are sequences of string tokens: the text the program produces is  *)
(* the concatenation of the tokens, in order.                              *)
(***************************************************************************)
EXTENDS Integers, Sequences, FiniteSets, TLC

VARIABLES
    functions,       \* app_state.functions, in slot order: FunctionId -> GraphFunction
    main_graph_id,   \* app_state.main_graph_id
    compile_result,  \* what the last compile call returned (or how it ended)
    script,          \* the text `result` the last compile call generated and printed
    outputs_cache,   \* the HashMap of the last compile call, as it was when the call ended
    runs,            \* number of compile calls made on the present catalog
    prev_run,        \* outcome of the compile call before the last one
    walk_log,        \* the steps of the last compile call's walk, in order
    active_node,     \* user_state.active_node
    evaluation,      \* outcome of evaluate_node on the active node, in the last frame
    editor_graph,    \* app_state.graph: the graph the editor shows (function panel)
    current_function,\* app_state.current_function
    slots            \* the slots of app_state.functions: their versions, the free list

panel == <<editor_graph, current_function, slots>>

vars == <<functions, main_graph_id, compile_result, script, outputs_cache, runs, prev_run,
          walk_log, active_node, evaluation, editor_graph, current_function, slots>>

----------------------------------------------------------------------------
(* Bounds of the model *)

\* total number of nodes the editor creates, over all graphs
MaxNodes == 3

\* number of nodes in the graph of a function other than Main
MaxFnNodes == 1

\* total number of connected inputs, over all graphs
MaxConnections == 3

\* total number of inputs whose inline value the user has edited away from
\* the default
MaxEdits == 1

\* number of compile calls on one catalog
MaxRuns == 2

\* number of connected inputs of the graph with a two-way branch
MaxWires == 4

\* number of connected inputs of the data graph
MaxDataWires == 4

\* number of slots of the function slot map (Main and the functions made)
MaxSlots == 3

\* number of keys one slot of the function slot map hands out
MaxVersions == 2

\* number of nodes the editor puts into one graph while the panel is in use
MaxPanelNodes == 1

\* inline strings the user types into a text widget
InlineStrings == {"", "hello"}

----------------------------------------------------------------------------
(* Data model *)

\* Option::None of a FunctionId / OutputId
NoId == 0

\* the two functions of the catalog, in slot order
MainId == 1
FnId == 2

\* MyDataType
Execution == "Execution"
String == "String"
Integer == "Integer"

\* MyNodeTemplate, as far as compile handles it
NodeEnter == [kind |-> "Enter", fn |-> NoId]
NodePrint == [kind |-> "Print", fn |-> NoId]
NodeAsk == [kind |-> "Ask", fn |-> NoId]
NodeFunction(x) == [kind |-> "Function", fn |-> x]
NodeIf == [kind |-> "If", fn |-> NoId]

\* the templates the editor can instantiate
Templates == {NodeEnter, NodePrint, NodeAsk, NodeFunction(NoId), NodeFunction(FnId)}

\* the templates instantiated in the graph of a function other than Main
\* (compile only looks for Enter nodes there)
FnTemplates == {NodeEnter, NodePrint}

\* NodeType of a template: port shape of the execution ports
get_node_params(template) ==
    IF template.kind = "Enter" THEN "Execute" ELSE "ExecutedAndExecute"

\* Graph::default()
EmptyGraph == [nodes |-> <<>>, inputs |-> <<>>, outputs |-> <<>>, connections |-> <<>>]

\* graph.add_input_param: a new InputId, appended to the owner's input list
add_input_param(graph, node_id, typ, value) ==
    LET id == Len(graph.inputs) + 1 IN
    [graph EXCEPT
        !.inputs = Append(@, [node |-> node_id, typ |-> typ, value |-> value]),
        !.connections = Append(@, NoId),
        !.nodes[node_id].inputs = Append(@, id)]

\* graph.add_output_param: a new OutputId, appended to the owner's output list
add_output_param(graph, node_id, typ) ==
    LET id == Len(graph.outputs) + 1 IN
    [graph EXCEPT
        !.outputs = Append(@, [node |-> node_id, typ |-> typ]),
        !.nodes[node_id].outputs = Append(@, id)]

exe_input(graph, node_id) == add_input_param(graph, node_id, Execution, "")
exe_output(graph, node_id) == add_output_param(graph, node_id, Execution)
classic_input(graph, node_id, typ, value) == add_input_param(graph, node_id, typ, value)
classic_output(graph, node_id, typ) == add_output_param(graph, node_id, typ)

\* ports of a Function node: one per FunctionIO entry of the callee's signature
RECURSIVE signature_inputs(_, _, _)
signature_inputs(graph, node_id, ios) ==
    IF ios = <<>> THEN graph
    ELSE LET io == Head(ios)
             g == IF io.typ = Execution THEN exe_input(graph, node_id)
                  ELSE classic_input(graph, node_id, io.typ, io.value)
         IN signature_inputs(g, node_id, Tail(ios))

RECURSIVE signature_outputs(_, _, _)
signature_outputs(graph, node_id, ios) ==
    IF ios = <<>> THEN graph
    ELSE LET io == Head(ios)
             g == IF io.typ = Execution THEN exe_output(graph, node_id)
                  ELSE classic_output(graph, node_id, io.typ)
         IN signature_outputs(g, node_id, Tail(ios))

\* NodeTemplateTrait::build_node on a freshly inserted empty node
build_node(graph0, template, fns) ==
    LET node_id == Len(graph0.nodes) + 1
        g0 == [graph0 EXCEPT !.nodes =
                  Append(@, [template |-> template, inputs |-> <<>>, outputs |-> <<>>])]
        g1 == IF get_node_params(template) = "Execute"
              THEN exe_output(g0, node_id)
              ELSE exe_output(exe_input(g0, node_id), node_id)
    IN CASE template.kind = "Enter" -> g1
         [] template.kind = "Ask" ->
              classic_output(classic_input(g1, node_id, String, ""), node_id, String)
         [] template.kind = "If" ->
              classic_input(exe_output(exe_output(g1, node_id), node_id),
                            node_id, Integer, "0")
         [] template.kind = "Print" -> classic_input(g1, node_id, String, "")
         [] template.kind = "Function" ->
              IF template.fn = NoId THEN g1
              ELSE signature_outputs(
                       signature_inputs(g1, node_id, fns[template.fn].input),
                       node_id, fns[template.fn].output)

----------------------------------------------------------------------------
(* compile: validation of the Enter node *)

\* the messages of the three Enter-placement errors
TooManyEnterNodes == "You have Too many Enter Nodes"
EnterInAFunction == "A Enter node in a function"
NoEnterNode == "You don't have any Enter node"

\* the slot of the slot map a FunctionId points to; a key is its slot plus
\* MaxSlots for every earlier occupant of the slot (its version)
slot(key) == ((key - 1) % MaxSlots) + 1

\* SlotMap::iter / keys: the keys of the occupied slots, in slot order
RECURSIVE keys_from(_, _)
keys_from(fns, i) ==
    IF i > MaxSlots THEN <<>>
    ELSE LET at == {k \in DOMAIN fns : slot(k) = i}
         IN (IF at = {} THEN <<>> ELSE <<CHOOSE k \in at : TRUE>>) \o keys_from(fns, i + 1)

slot_keys(fns) == keys_from(fns, 1)

\* variant: the scan looks at the graph of Main only
RECURSIVE scan_order_main_only(_, _, _)
scan_order_main_only(fns, f, n) ==
    IF f > 1 THEN <<>>
    ELSE IF n > Len(fns[slot_keys(fns)[f]].graph.nodes) THEN scan_order_main_only(fns, f + 1, 1)
    ELSE <<[f |-> slot_keys(fns)[f], n |-> n]>> \o scan_order_main_only(fns, f, n + 1)

\* variant: the functions are scanned from the last slot to the first
RECURSIVE scan_order_backwards(_, _, _)
scan_order_backwards(fns, f, n) ==
    LET keys == slot_keys(fns)
        x == Len(keys) + 1 - f
    IN IF f > Len(keys) THEN <<>>
       ELSE IF n > Len(fns[keys[x]].graph.nodes) THEN scan_order_backwards(fns, f + 1, 1)
       ELSE <<[f |-> keys[x], n |-> n]>> \o scan_order_backwards(fns, f, n + 1)

\* the (function, node) pairs in the order the two nested loops visit them:
\* f is the position of the function in the iteration, n the node
RECURSIVE scan_order(_, _, _)
scan_order(fns, f, n) ==
    LET keys == slot_keys(fns)
    IN IF f > Len(keys) THEN <<>>
       ELSE IF n > Len(fns[keys[f]].graph.nodes) THEN scan_order(fns, f + 1, 1)
       ELSE <<[f |-> keys[f], n |-> n]>> \o scan_order(fns, f, n + 1)

\* variant: a second Enter node of Main replaces the first one silently
RECURSIVE scan_enter_overwrite(_, _, _, _, _, _)
scan_enter_overwrite(fns, main, enter_node, todo, already_a_enter, is_enter_node_id) ==
    IF todo = <<>> THEN [err |-> "", id |-> is_enter_node_id]
    ELSE LET x == Head(todo).f
             y == Head(todo).n
         IN IF fns[x].graph.nodes[y].template = enter_node
            THEN IF x = main
                 THEN scan_enter_overwrite(fns, main, enter_node, Tail(todo), TRUE, y)
                 ELSE [err |-> EnterInAFunction, id |-> NoId]
            ELSE scan_enter_overwrite(fns, main, enter_node, Tail(todo),
                                      already_a_enter, is_enter_node_id)

\* the body of the loops: the first return statement reached, or the Enter
\* node of Main when the loops run to their end
RECURSIVE scan_enter(_, _, _, _, _, _)
scan_enter(fns, main, enter_node, todo, already_a_enter, is_enter_node_id) ==
    IF todo = <<>> THEN [err |-> "", id |-> is_enter_node_id]
    ELSE LET x == Head(todo).f
             y == Head(todo).n
         IN IF fns[x].graph.nodes[y].template = enter_node
            THEN IF x = main
                 THEN IF ~already_a_enter
                      THEN scan_enter(fns, main, enter_node, Tail(todo), TRUE, y)
                      ELSE [err |-> TooManyEnterNodes, id |-> NoId]
                 ELSE [err |-> EnterInAFunction, id |-> NoId]
            ELSE scan_enter(fns, main, enter_node, Tail(todo),
                            already_a_enter, is_enter_node_id)

\* variant: a scan that found no Enter node reports a misplaced one
validate_enter_wrong_kind(fns, main, enter_node) ==
    LET r == scan_enter(fns, main, enter_node, scan_order(fns, 1, 1), FALSE, NoId)
    IN IF r.err # "" THEN r
       ELSE IF r.id = NoId THEN [err |-> EnterInAFunction, id |-> NoId]
       ELSE r

\* lines 12-34 of compile: the error returned, or the id of Main's Enter node
validate_enter(fns, main, enter_node) ==
    LET r == scan_enter(fns, main, enter_node, scan_order(fns, 1, 1), FALSE, NoId)
    IN IF r.err # "" THEN r
       ELSE IF r.id = NoId THEN [err |-> NoEnterNode, id |-> NoId]
       ELSE r

----------------------------------------------------------------------------
(* evaluate_functionn: the walker over execution edges *)

\* Debug text of slotmap KeyData: index and version (no slot is ever reused)
KeyData(id) == ToString(id) \o "v1"

\* format!("var_{:?}", y.id.data())
var_name(output_id) == "var_" \o KeyData(output_id)

\* variant: a string is rendered without its quotes
inline_text_unquoted(input) ==
    CASE input.typ = Execution -> ""
      [] OTHER -> input.value

\* rendering of an unconnected input's inline value
inline_text(input) ==
    CASE input.typ = String -> "\"" \o input.value \o "\""
      [] input.typ = Execution -> ""
      [] OTHER -> input.value

\* variant: the insertion replaces the map by the one new entry
cache_insert_alone(cache, k, v) == [x \in {k} |-> v]

\* HashMap::insert
cache_insert(cache, k, v) ==
    [x \in (DOMAIN cache) \cup {k} |-> IF x = k THEN v ELSE cache[x]]

\* the loop over next_node.inputs(graph) followed by filter_map: None entries
\* (execution inputs, inputs connected to an output the cache does not hold)
\* are dropped
RECURSIVE filtered_inputs(_, _, _)
filtered_inputs(graph, input_ids, cache) ==
    IF input_ids = <<>> THEN <<>>
    ELSE LET y == Head(input_ids)
             z == graph.connections[y]
             entry == IF graph.inputs[y].typ = Execution THEN <<>>
                      ELSE IF z # NoId
                           THEN IF z \in DOMAIN cache THEN <<cache[z]>> ELSE <<>>
                           ELSE <<inline_text(graph.inputs[y])>>
         IN entry \o filtered_inputs(graph, Tail(input_ids), cache)

\* variant: the test of the output's type is missing, every output counts as
\* an execution output
RECURSIVE executions_index_untyped(_, _)
executions_index_untyped(graph, output_ids) ==
    IF output_ids = <<>> THEN <<>>
    ELSE <<Head(output_ids)>> \o executions_index_untyped(graph, Tail(output_ids))

\* the loop over next_node.outputs(graph): the execution outputs, in order
RECURSIVE executions_index(_, _)
executions_index(graph, output_ids) ==
    IF output_ids = <<>> THEN <<>>
    ELSE (IF graph.outputs[Head(output_ids)].typ = Execution
          THEN <<Head(output_ids)>> ELSE <<>>)
         \o executions_index(graph, Tail(output_ids))

\* variant: the temporary is named after the position of the output in the
\* output list of its node
RECURSIVE register_outputs_by_position(_, _, _)
register_outputs_by_position(graph, output_ids, cache) ==
    IF output_ids = <<>> THEN cache
    ELSE LET y == Head(output_ids)
             c == IF graph.outputs[y].typ = Execution THEN cache
                  ELSE cache_insert(cache, y, "var_" \o ToString(Len(output_ids)))
         IN register_outputs_by_position(graph, Tail(output_ids), c)

\* the same loop: every non-execution output gets its temporary name
RECURSIVE register_outputs(_, _, _)
register_outputs(graph, output_ids, cache) ==
    IF output_ids = <<>> THEN cache
    ELSE LET y == Head(output_ids)
             c == IF graph.outputs[y].typ = Execution THEN cache
                  ELSE cache_insert(cache, y, var_name(y))
         IN register_outputs(graph, Tail(output_ids), c)

\* graph.iter_connections() filtered by x.1 == y: the inputs fed by output y,
\* in InputId order
RECURSIVE connections_from(_, _, _)
connections_from(graph, y, x) ==
    IF x > Len(graph.connections) THEN <<>>
    ELSE (IF graph.connections[x] = y THEN <<x>> ELSE <<>>)
         \o connections_from(graph, y, x + 1)

\* the nodes the two nested loops of lines 104-116 recurse into, in order
RECURSIVE execution_targets(_, _)
execution_targets(graph, exe_outputs) ==
    IF exe_outputs = <<>> THEN <<>>
    ELSE LET ins == connections_from(graph, Head(exe_outputs), 1)
         IN [i \in 1..Len(ins) |-> graph.inputs[ins[i]].node]
            \o execution_targets(graph, Tail(exe_outputs))

\* the match on the template, lines 120-132; an index out of range or an
\* unwrap of None panics
script_line(node, cache, inputs, executions) ==
    CASE node.template.kind = "Enter" -> [st |-> "ok", text |-> <<>>]
      [] node.template.kind = "Print" ->
            IF Len(inputs) < 1 THEN [st |-> "panic", text |-> <<>>]
            ELSE [st |-> "ok", text |-> <<"io.write(", inputs[1], ")">>]
      [] node.template.kind = "Ask" ->
            IF Len(node.outputs) < 3 THEN [st |-> "panic", text |-> <<>>]
            ELSE IF node.outputs[3] \notin DOMAIN cache THEN [st |-> "panic", text |-> <<>>]
            ELSE IF Len(inputs) < 1 THEN [st |-> "panic", text |-> <<>>]
            ELSE [st |-> "ok",
                  text |-> <<"local ", cache[node.outputs[3]], " = io.read(", inputs[1],
                             ", (func -> ">>
                           \o (IF Len(executions) >= 2 THEN executions[2] ELSE <<"default">>)
                           \o <<"))">>]
      [] node.template.kind = "Function" -> [st |-> "ok", text |-> <<>>]

\* MyNodeTemplate::compile_to: the statement of a template, given the script
\* of every followed execution connection; an index out of range or an unwrap
\* of None panics
compile_to(node, cache, inputs, executions) ==
    CASE node.template.kind = "Print" ->
            IF Len(inputs) < 1 THEN [st |-> "panic", text |-> <<>>]
            ELSE [st |-> "ok", text |-> <<"(io.write ", inputs[1], ")">>]
      [] node.template.kind = "Ask" ->
            IF Len(inputs) < 1 THEN [st |-> "panic", text |-> <<>>]
            ELSE IF Len(node.outputs) < 2 THEN [st |-> "panic", text |-> <<>>]
            ELSE IF node.outputs[2] \notin DOMAIN cache THEN [st |-> "panic", text |-> <<>>]
            ELSE [st |-> "ok",
                  text |-> <<"(io.write ", inputs[1], ") (local ", cache[node.outputs[2]],
                             " (io.read))">>]
      [] node.template.kind = "If" ->
            IF Len(inputs) < 1 THEN [st |-> "panic", text |-> <<>>]
            ELSE [st |-> "ok",
                  text |-> <<"(if (= ", inputs[1], " 1) (do ">>
                           \o (IF Len(executions) >= 2 THEN executions[2] ELSE <<>>)
                           \o <<") (do ">>
                           \o (IF Len(executions) >= 3 THEN executions[3] ELSE <<>>)
                           \o <<"))">>]
      [] OTHER -> [st |-> "ok", text |-> <<>>]

\* the templates the match of evaluate_functionn has an arm for
InlineKinds == {"Enter", "Print", "Ask", "Function"}

\* the statement of a compiled node: the arm of the walker's own match, and
\* the statement hook of the template for a template the match has no arm for
statement(node, cache, inputs, executions) ==
    IF node.template.kind \in InlineKinds
    THEN script_line(node, cache, inputs, executions)
    ELSE compile_to(node, cache, inputs, executions)

RECURSIVE evaluate_functionn(_, _, _, _)
RECURSIVE evaluate_executions(_, _, _, _)

\* what the walk is seen to do: a call enters a node ("visit", with the cache
\* as the call finds it), and later reaches the statement of the node ("hook",
\* with the operand list, the list of branch scripts and the cache as the
\* statement finds them)
Step(ev, next_node, inputs, executions, cache) ==
    [ev |-> ev, node |-> next_node, inputs |-> inputs, executions |-> executions,
     cache |-> cache]

\* one call of evaluate_functionn on node next_node with the cache as it is;
\* depth is the number of stack frames left (the call stack is finite)
evaluate_functionn(graph, next_node, cache, depth) ==
    IF depth = 0 THEN [st |-> "overflow", text |-> <<>>, cache |-> cache, log |-> <<>>]
    ELSE
    LET node == graph.nodes[next_node]
        inputs == filtered_inputs(graph, node.inputs, cache)
        cache1 == register_outputs(graph, node.outputs, cache)
        targets == execution_targets(graph, executions_index(graph, node.outputs))
        ex == evaluate_executions(graph, targets, cache1, depth - 1)
        visit == Step("visit", next_node, <<>>, <<>>, cache)
        hook == Step("hook", next_node, inputs, ex.list, ex.cache)
    IN IF ex.st # "ok"
       THEN [st |-> ex.st, text |-> <<>>, cache |-> ex.cache, log |-> <<visit>> \o ex.log]
       ELSE LET line == statement(node, ex.cache, inputs, ex.list)
                log == <<visit>> \o ex.log \o <<hook>>
            IN IF line.st # "ok"
               THEN [st |-> line.st, text |-> <<>>, cache |-> ex.cache, log |-> log]
               ELSE [st |-> "ok",
                     text |-> line.text \o <<" -- ">>
                              \o (IF Len(ex.list) >= 1 THEN ex.list[1] ELSE <<"default">>),
                     cache |-> ex.cache, log |-> log]

\* the recursive calls of lines 104-116, one per connection, sharing the cache
evaluate_executions(graph, targets, cache, depth) ==
    IF targets = <<>> THEN [st |-> "ok", list |-> <<>>, cache |-> cache, log |-> <<>>]
    ELSE LET r == evaluate_functionn(graph, Head(targets), cache, depth)
         IN IF r.st # "ok"
            THEN [st |-> r.st, list |-> <<>>, cache |-> r.cache, log |-> r.log]
            ELSE LET rest == evaluate_executions(graph, Tail(targets), r.cache, depth)
                 IN [st |-> rest.st, list |-> <<r.text>> \o rest.list,
                     cache |-> rest.cache, log |-> r.log \o rest.log]

----------------------------------------------------------------------------
(* compile *)

\* a call deeper than the number of nodes visits a node twice on one path and
\* therefore never returns: the stack is exhausted
stack_depth(graph) == Len(graph.nodes) + 1

\* variant: the cache outlives the call and the next call starts from it
stale_cache(previous_cache) == previous_cache

\* &mut HashMap::new(): the cache a compile call starts from
new_cache(previous_cache) == << >>

\* Ok(app::MyValueType::Boolean { value: true })
compile_success(text) == [kind |-> "Ok", tag |-> "Boolean", value |-> <<"true">>]

\* variant: the call takes the graph of Main out of the catalog
catalog_graph_taken(fns) == [fns EXCEPT ![MainId].graph = EmptyGraph]

\* the catalog as a compile call leaves it: compile borrows app_state immutably
catalog_after_compile(fns) == fns

NoText == <<>>

\* the whole call: what it returns, the text it generated, its cache at the end
compile(fns, main, enter_node, previous_cache) ==
    LET v == validate_enter(fns, main, enter_node)
    IN IF v.err # ""
       THEN [result |-> [kind |-> "Err", tag |-> "String", value |-> <<v.err>>],
             script |-> NoText, cache |-> << >>, log |-> <<>>]
       ELSE LET graph == fns[main].graph
                r == evaluate_functionn(graph, v.id, new_cache(previous_cache),
                                        stack_depth(graph))
            IN IF r.st = "ok"
               THEN [result |-> compile_success(r.text), script |-> r.text, cache |-> r.cache,
                     log |-> r.log]
               ELSE [result |-> [kind |-> "Abort", tag |-> r.st, value |-> NoText],
                     script |-> NoText, cache |-> r.cache, log |-> r.log]

----------------------------------------------------------------------------
(* evaluate_node: the evaluator of the data graph (Scalar / Vec2 templates) *)

Scalar == "Scalar"
Vec2 == "Vec2"

\* MyValueType of the evaluator: the components of a value, one for a scalar
\* and two for a vector
ScalarValue(v) == [tag |-> Scalar, value |-> <<v>>]
Vec2Value(x, y) == [tag |-> Vec2, value |-> <<x, y>>]
NoValue == [tag |-> "None", value |-> <<>>]

DataTemplate(kind) == [kind |-> kind, fn |-> NoId]

\* input parameters of a data template, in declaration order
input_params(template) ==
    LET in(name, typ, v) == [name |-> name, typ |-> typ, value |-> v]
        zero == Vec2Value(0, 0)
    IN CASE template.kind = "AddScalar" ->
              <<in("A", Scalar, ScalarValue(10)), in("B", Scalar, ScalarValue(0))>>
         [] template.kind = "SubtractScalar" ->
              <<in("A", Scalar, ScalarValue(0)), in("B", Scalar, ScalarValue(0))>>
         [] template.kind = "VectorTimesScalar" ->
              <<in("scalar", Scalar, ScalarValue(0)), in("vector", Vec2, zero)>>
         [] template.kind \in {"AddVector", "SubtractVector"} ->
              <<in("v1", Vec2, zero), in("v2", Vec2, zero)>>
         [] template.kind = "MakeVector" ->
              <<in("x", Scalar, ScalarValue(0)), in("y", Scalar, ScalarValue(0))>>
         [] template.kind = "MakeScalar" -> <<in("value", Scalar, ScalarValue(0))>>

\* data type of the output "out" of a data template
output_type(template) ==
    IF template.kind \in {"AddScalar", "SubtractScalar", "MakeScalar"} THEN Scalar ELSE Vec2

RECURSIVE add_input_params(_, _, _)
add_input_params(graph, node_id, params) ==
    IF params = <<>> THEN graph
    ELSE add_input_params(
             add_input_param(graph, node_id, Head(params).typ, Head(params).value),
             node_id, Tail(params))

\* build_node of a data template on a freshly inserted empty node
build_data_node(graph0, template, fns) ==
    LET node_id == Len(graph0.nodes) + 1
        g0 == [graph0 EXCEPT !.nodes =
                  Append(@, [template |-> template, inputs |-> <<>>, outputs |-> <<>>])]
    IN add_output_param(add_input_params(g0, node_id, input_params(template)),
                        node_id, output_type(template))

\* Node::get_input: the input of that name, or NoId when the node has none
get_input(graph, node_id, name) ==
    LET params == input_params(graph.nodes[node_id].template)
        at == {k \in DOMAIN params : params[k].name = name}
    IN IF at = {} THEN NoId ELSE graph.nodes[node_id].inputs[CHOOSE k \in at : TRUE]

\* the value a match arm of evaluate_node computes from its inputs
output_value(template, in) ==
    CASE template.kind = "AddScalar" -> ScalarValue(in[1][1] + in[2][1])
      [] template.kind = "SubtractScalar" -> ScalarValue(in[1][1] - in[2][1])
      [] template.kind = "VectorTimesScalar" -> Vec2Value(in[2][1] * in[1][1], in[2][2] * in[1][1])
      [] template.kind = "AddVector" -> Vec2Value(in[1][1] + in[2][1], in[1][2] + in[2][2])
      [] template.kind = "SubtractVector" -> Vec2Value(in[1][1] - in[2][1], in[1][2] - in[2][2])
      [] template.kind = "MakeVector" -> Vec2Value(in[1][1], in[2][1])
      [] template.kind = "MakeScalar" -> ScalarValue(in[1][1])

\* an evaluation step ends with a value (ok), an anyhow error (err), a failed
\* expect (panic) or an exhausted stack (overflow); mem is the outputs cache
\* and the list of nodes whose output has been computed, in order
Outcome(st, value, mem) == [st |-> st, value |-> value, mem |-> mem]

\* populate_output: the computed value goes into the cache
populate_output(graph, mem, node_id, value) ==
    LET output_id == graph.nodes[node_id].outputs[1]
    IN Outcome("ok", value,
               [cache |-> cache_insert(mem.cache, output_id, value),
                log |-> Append(mem.log, node_id)])

RECURSIVE evaluate_node(_, _, _, _)
RECURSIVE evaluate_input(_, _, _, _, _)
RECURSIVE evaluate_arm(_, _, _, _, _, _)

\* the typed reads of a match arm (input_scalar / input_vector, each with
\* `?`), then the output of the arm
evaluate_arm(graph, node_id, params, values, mem, depth) ==
    IF params = <<>>
    THEN populate_output(graph, mem, node_id,
                         output_value(graph.nodes[node_id].template, values))
    ELSE LET r == evaluate_input(graph, node_id, Head(params).name, mem, depth)
         IN IF r.st # "ok" THEN r
            ELSE IF r.value.tag # Head(params).typ THEN Outcome("err", NoValue, r.mem)
            ELSE evaluate_arm(graph, node_id, Tail(params),
                              Append(values, r.value.value), r.mem, depth)

evaluate_node(graph, node_id, mem, depth) ==
    IF depth = 0 THEN Outcome("overflow", NoValue, mem)
    ELSE LET b == evaluate_input(graph, node_id, "B", mem, depth)
         IN IF b.st \in {"overflow", "panic"} THEN b
            ELSE evaluate_arm(graph, node_id,
                              input_params(graph.nodes[node_id].template), <<>>, b.mem, depth)

\* variant: a connected input is evaluated again although the cache holds
\* the value of its source
evaluate_input_uncached(graph, node_id, param_name, mem, depth) ==
    LET input_id == get_input(graph, node_id, param_name)
    IN IF input_id = NoId THEN Outcome("err", NoValue, mem)
       ELSE LET other_output_id == graph.connections[input_id]
            IN IF other_output_id # NoId
               THEN LET r == evaluate_node(graph, graph.outputs[other_output_id].node,
                                           mem, depth - 1)
                    IN IF r.st # "ok" THEN r
                       ELSE Outcome("ok", r.mem.cache[other_output_id], r.mem)
               ELSE Outcome("ok", graph.inputs[input_id].value, mem)

evaluate_input(graph, node_id, param_name, mem, depth) ==
    LET input_id == get_input(graph, node_id, param_name)
    IN IF input_id = NoId THEN Outcome("err", NoValue, mem)
       ELSE LET other_output_id == graph.connections[input_id]
            IN IF other_output_id # NoId
               THEN IF other_output_id \in DOMAIN mem.cache
                    THEN Outcome("ok", mem.cache[other_output_id], mem)
                    ELSE LET r == evaluate_node(graph, graph.outputs[other_output_id].node,
                                                mem, depth - 1)
                         IN IF r.st # "ok" THEN r
                            ELSE IF other_output_id \notin DOMAIN r.mem.cache
                                 THEN Outcome("panic", NoValue, r.mem)
                                 ELSE Outcome("ok", r.mem.cache[other_output_id], r.mem)
               ELSE Outcome("ok", graph.inputs[input_id].value, mem)

\* &mut HashMap::new() of the frame's evaluate_node call
NewMem == [cache |-> << >>, log |-> <<>>]

----------------------------------------------------------------------------
(* State machine *)

NoEvaluation == Outcome("none", NoValue, NewMem)

NoResult == [kind |-> "None", tag |-> "", value |-> NoText]
NoRun == [result |-> NoResult, script |-> NoText]

\* FunctionIO / Variable entries: data type and default value
StringIO(name) == [name |-> name, typ |-> String, value |-> ""]

\* App::default: Main with its two variables; plus one user-made function
\* with one String input and one String output
\* the function panel is left alone: the graphs are edited where the catalog
\* holds them
PanelAtRest ==
    /\ editor_graph = EmptyGraph
    /\ current_function = MainId
    /\ slots = [versions |-> <<1, 1>>, free |-> <<>>]

DefaultFunctions ==
    << [name |-> "Main", graph |-> EmptyGraph, input |-> <<>>, output |-> <<>>,
        variables_list |-> <<[name |-> "Hello", typ |-> String, value |-> "World !"],
                             [name |-> "Hello_World", typ |-> "Boolean", value |-> "true"]>>],
       [name |-> "new_function", graph |-> EmptyGraph,
        input |-> <<StringIO("a")>>, output |-> <<StringIO("r")>>,
        variables_list |-> <<>>] >>

Init ==
    /\ functions = DefaultFunctions
    /\ main_graph_id = MainId
    /\ compile_result = NoResult
    /\ script = NoText
    /\ outputs_cache = << >>
    /\ runs = 0
    /\ prev_run = NoRun
    /\ walk_log = <<>>
    /\ active_node = NoId
    /\ evaluation = NoEvaluation
    /\ PanelAtRest

FunctionIds == DOMAIN functions

TotalNodes == Len(functions[MainId].graph.nodes) + Len(functions[FnId].graph.nodes)

Connected(fns) ==
    {<<f, i>> \in {<<g, j>> \in (DOMAIN fns) \X (1..(4 * MaxNodes)) :
                      j \in DOMAIN fns[g].graph.connections} :
        fns[f].graph.connections[i] # NoId}

EditedInputs(fns) ==
    {<<f, i>> \in {<<g, j>> \in (DOMAIN fns) \X (1..(4 * MaxNodes)) :
                      j \in DOMAIN fns[g].graph.inputs} :
        fns[f].graph.inputs[i].value # ""}

\* the editor works on a catalog no compile call has been made on yet; what
\* is observed of compile calls belongs to the catalog as it then stays
Edited ==
    /\ runs = 0
    /\ active_node = NoId
    /\ UNCHANGED <<main_graph_id, compile_result, script, outputs_cache, runs, prev_run,
                   walk_log, active_node, evaluation>>
    /\ UNCHANGED panel

\* the node finder creates a node of a template in the graph of function f
AddNode(f, template) ==
    /\ runs = 0
    /\ TotalNodes < MaxNodes
    /\ f # main_graph_id =>
          (Len(functions[f].graph.nodes) < MaxFnNodes /\ template \in FnTemplates)
    /\ functions' = [functions EXCEPT ![f].graph = build_node(@, template, functions)]
    /\ Edited

\* variant: an input that is connected keeps its connection
connect_keep_first(graph, output, input) ==
    IF graph.connections[input] # NoId THEN graph
    ELSE [graph EXCEPT !.connections[input] = output]

\* variant: the handler leaves the other connections of the output alone
connect_without_retain(graph, output, input) ==
    [graph EXCEPT !.connections[input] = output]

\* the single-consumer data type of the ConnectEventEnded handler
SingleConsumerType == "Scalar"

\* ConnectEventEnded: the library has recorded input <- output; the handler
\* then drops the other connections of a single-consumer output
connect(graph, output, input) ==
    LET inserted == [graph.connections EXCEPT ![input] = output]
    IN [graph EXCEPT !.connections =
          IF graph.outputs[output].typ = SingleConsumerType
          THEN [inp \in DOMAIN inserted |->
                   IF inp # input /\ inserted[inp] = output THEN NoId ELSE inserted[inp]]
          ELSE inserted]

\* the user drags a wire from an output to an input of the same data type;
\* limit bounds the number of connected inputs
ConnectWithin(f, output, input, limit) ==
    /\ runs = 0
    /\ functions[f].graph.outputs[output].typ = functions[f].graph.inputs[input].typ
    /\ functions[f].graph.connections[input] # output
    /\ functions' = [functions EXCEPT ![f].graph = connect(@, output, input)]
    /\ Cardinality(Connected(functions')) <= limit
    /\ Edited

Connect(f, output, input) == ConnectWithin(f, output, input, MaxConnections)

\* the text widget of an unconnected String input
SetValue(f, input, value) ==
    /\ runs = 0
    /\ functions[f].graph.inputs[input].typ = String
    /\ functions[f].graph.inputs[input].value # value
    /\ functions' = [functions EXCEPT ![f].graph.inputs[input].value = value]
    /\ Cardinality(EditedInputs(functions')) <= MaxEdits
    /\ Edited

\* the Compile button, on the catalog fns
CompileOn(fns, enter_node) ==
    /\ runs < MaxRuns
    /\ LET c == compile(fns, main_graph_id, enter_node, outputs_cache)
       IN /\ compile_result' = c.result
          /\ script' = c.script
          /\ outputs_cache' = c.cache
          /\ walk_log' = c.log
    /\ prev_run' = [result |-> compile_result, script |-> script]
    /\ runs' = runs + 1
    /\ functions' = catalog_after_compile(functions)
    /\ UNCHANGED <<main_graph_id, active_node, evaluation>>
    /\ UNCHANGED panel

Compile(enter_node) == CompileOn(functions, enter_node)

Next ==
    \/ \E f \in FunctionIds, t \in Templates : AddNode(f, t)
    \/ \E f \in FunctionIds :
          \E o \in DOMAIN functions[f].graph.outputs, i \in DOMAIN functions[f].graph.inputs :
             Connect(f, o, i)
    \/ \E f \in FunctionIds :
          \E i \in DOMAIN functions[f].graph.inputs, s \in InlineStrings : SetValue(f, i, s)
    \/ Compile(NodeEnter)

Spec == Init /\ [][Next]_vars

----------------------------------------------------------------------------
(* The editor on a graph with a two-way branch: Main holds an Enter node, an
   If node and three Print nodes whose texts have been typed; the user wires
   the execution ports and compiles *)

RECURSIVE build_nodes(_, _, _)
build_nodes(graph, templates, fns) ==
    IF templates = <<>> THEN graph
    ELSE build_nodes(build_node(graph, Head(templates), fns), Tail(templates), fns)

BranchTemplates == <<NodeEnter, NodeIf, NodePrint, NodePrint, NodePrint>>

\* the texts typed into the three Print nodes, in node order
BranchLiterals == <<"yes", "no", "after">>

BranchGraph ==
    LET g == build_nodes(EmptyGraph, BranchTemplates, DefaultFunctions)
    IN [g EXCEPT !.inputs =
          [i \in DOMAIN g.inputs |->
              IF g.inputs[i].typ = String
              THEN [g.inputs[i] EXCEPT !.value = BranchLiterals[g.inputs[i].node - 2]]
              ELSE g.inputs[i]]]

InitBranch ==
    /\ functions = [DefaultFunctions EXCEPT ![MainId].graph = BranchGraph]
    /\ main_graph_id = MainId
    /\ compile_result = NoResult
    /\ script = NoText
    /\ outputs_cache = << >>
    /\ runs = 0
    /\ prev_run = NoRun
    /\ walk_log = <<>>
    /\ active_node = NoId
    /\ evaluation = NoEvaluation
    /\ PanelAtRest

NextBranch ==
    \/ \E o \in DOMAIN functions[MainId].graph.outputs,
            i \in DOMAIN functions[MainId].graph.inputs :
          ConnectWithin(MainId, o, i, MaxWires)
    \/ Compile(NodeEnter)

SpecBranch == InitBranch /\ [][NextBranch]_vars

----------------------------------------------------------------------------
(* The editor on a data graph: the graph holds a scalar source, a vector
   source and three vector adders; the user wires them and selects a node,
   whose value the frame then evaluates *)

RECURSIVE build_data_nodes(_, _, _)
build_data_nodes(graph, templates, fns) ==
    IF templates = <<>> THEN graph
    ELSE build_data_nodes(build_data_node(graph, Head(templates), fns), Tail(templates), fns)

DataTemplates ==
    <<DataTemplate("MakeScalar"), DataTemplate("MakeVector"), DataTemplate("AddVector"),
      DataTemplate("AddVector"), DataTemplate("AddVector")>>

InitData ==
    /\ functions = [DefaultFunctions EXCEPT
                       ![MainId].graph = build_data_nodes(EmptyGraph, DataTemplates,
                                                          DefaultFunctions)]
    /\ main_graph_id = MainId
    /\ compile_result = NoResult
    /\ script = NoText
    /\ outputs_cache = << >>
    /\ runs = 0
    /\ prev_run = NoRun
    /\ walk_log = <<>>
    /\ active_node = NoId
    /\ evaluation = NoEvaluation
    /\ PanelAtRest

\* MyResponse::SetActiveNode, and the evaluation of the frame that follows
SetActiveNode(node) ==
    /\ active_node = NoId
    /\ active_node' = node
    /\ evaluation' = LET graph == functions[main_graph_id].graph
                     IN evaluate_node(graph, node, NewMem, stack_depth(graph))
    /\ UNCHANGED <<functions, main_graph_id, compile_result, script, outputs_cache,
                   runs, prev_run, walk_log>>
    /\ UNCHANGED panel

NextData ==
    \/ \E o \in DOMAIN functions[MainId].graph.outputs,
            i \in DOMAIN functions[MainId].graph.inputs :
          ConnectWithin(MainId, o, i, MaxDataWires)
    \/ \E n \in DOMAIN functions[MainId].graph.nodes : SetActiveNode(n)

SpecData == InitData /\ [][NextData]_vars

----------------------------------------------------------------------------
(* The function panel (functions.rs): the catalog as a slot map, the graph
   of the current function held by the editor.  A name is the sequence of
   its characters. *)

\* the configuration flag that hides a function from the Function nodes of
\* its own graph
DISABLE_RECURSIVE_FUNCTIONS == TRUE

MainName == <<"M", "a", "i", "n">>

\* the names the user types into the name fields
NameInputs == {<<"f">>, <<"f", " ", "1">>, <<"f", "_", "1">>}

\* input_name.replace(" ", "_")
replace_spaces(name) == [i \in 1..Len(name) |-> IF name[i] = " " THEN "_" ELSE name[i]]

\* the decimal digits of times, as format! writes them
RECURSIVE digits(_)
digits(times) ==
    IF times < 10 THEN <<ToString(times)>>
    ELSE digits(times \div 10) \o <<ToString(times % 10)>>

\* format!("{}_{}", name, times)
name_times(name, times) == name \o <<"_">> \o digits(times)

\* variant: the name is made of the input as typed
uniquify_name_as_typed(input_name, names) ==
    IF input_name \in names THEN name_times(input_name, 1) ELSE input_name

\* the loop of uniquify_name_closure; names are the names condition holds of
RECURSIVE uniquify_loop(_, _, _)
uniquify_loop(name, times, names) ==
    IF times = 0 /\ name \in names THEN uniquify_loop(name, times + 1, names)
    ELSE IF times > 0 /\ name_times(name, times) \in names
         THEN uniquify_loop(name, times + 1, names)
    ELSE IF times = 0 THEN name
    ELSE name_times(name, times)

uniquify_name_closure(input_name, names) ==
    uniquify_loop(replace_spaces(input_name), 0, names)

\* the condition of uniquify_name_slot: some function of the slot map has the name
uniquify_name_slot(name, slot_map) ==
    uniquify_name_closure(name, {slot_map[k].name : k \in DOMAIN slot_map})

\* the key of the occupant number `version` of slot i
key_of(i, version) == i + MaxSlots * (version - 1)

\* SlotMap::insert: the last freed slot is taken first, else a new slot
insert_key(s) ==
    IF s.free # <<>> THEN key_of(Head(s.free), s.versions[Head(s.free)] + 1)
    ELSE key_of(Len(s.versions) + 1, 1)

insert_slot(s) ==
    IF s.free # <<>>
    THEN [versions |-> [s.versions EXCEPT ![Head(s.free)] = @ + 1], free |-> Tail(s.free)]
    ELSE [versions |-> Append(s.versions, 1), free |-> s.free]

\* SlotMap::remove: the slot goes to the head of the free list
remove_slot(s, key) == [s EXCEPT !.free = <<slot(key)>> \o @]

\* NodeGraphExample::default(): an empty graph whose user_state.graph_id
\* names no function
NodeGraphExample_default ==
    [nodes |-> <<>>, inputs |-> <<>>, outputs |-> <<>>, connections |-> <<>>,
     graph_id |-> NoId]

\* App::default(): Main alone, neither removable nor renamable, its graph in
\* the editor
InitPanel ==
    /\ functions = (MainId :> [name |-> MainName, graph |-> NodeGraphExample_default,
                               input |-> <<>>, output |-> <<>>,
                               variables_list |-> DefaultFunctions[MainId].variables_list,
                               removable |-> FALSE, modifiable_name |-> FALSE])
    /\ editor_graph = [NodeGraphExample_default EXCEPT !.graph_id = MainId]
    /\ current_function = MainId
    /\ slots = [versions |-> <<1>>, free |-> <<>>]
    /\ main_graph_id = MainId
    /\ compile_result = NoResult
    /\ script = NoText
    /\ outputs_cache = << >>
    /\ runs = 0
    /\ prev_run = NoRun
    /\ walk_log = <<>>
    /\ active_node = NoId
    /\ evaluation = NoEvaluation

PanelEdited ==
    /\ runs = 0
    /\ UNCHANGED <<main_graph_id, compile_result, script, outputs_cache, runs, prev_run,
                   walk_log, active_node, evaluation>>

\* the Create button of the dialog: the name field holds the uniquified text
CreateFunction(typed) ==
    /\ slots.free = <<>> => Len(slots.versions) < MaxSlots
    /\ slots.free # <<>> => slots.versions[Head(slots.free)] < MaxVersions
    /\ LET new_function == insert_key(slots)
       IN functions' = functions @@
             (new_function :>
                 [name |-> uniquify_name_slot(typed, functions),
                  graph |-> [NodeGraphExample_default EXCEPT !.graph_id = new_function],
                  input |-> <<>>, output |-> <<>>, variables_list |-> <<>>,
                  removable |-> TRUE, modifiable_name |-> TRUE])
    /\ slots' = insert_slot(slots)
    /\ UNCHANGED <<editor_graph, current_function>>
    /\ PanelEdited

\* the name field of a function in the list has changed
RenameFunction(index, typed) ==
    /\ functions[index].modifiable_name
    /\ typed # functions[index].name
    /\ functions' = [functions EXCEPT ![index].name = uniquify_name_slot(typed, functions)]
    /\ UNCHANGED <<editor_graph, current_function, slots>>
    /\ PanelEdited

\* keys().last(); NoId stands for the failed expect("at least one function")
last_key(fns) ==
    IF slot_keys(fns) = <<>> THEN NoId ELSE slot_keys(fns)[Len(slot_keys(fns))]

\* variant: the removal leaves current_function as it is
RemoveFunction_current_kept(index) ==
    /\ functions[index].removable
    /\ functions' = [k \in DOMAIN functions \ {index} |-> functions[k]]
    /\ slots' = remove_slot(slots, index)
    /\ UNCHANGED <<editor_graph, current_function>>
    /\ PanelEdited

\* the "x" button of a removable function
RemoveFunction(index) ==
    /\ functions[index].removable
    /\ functions' = [k \in DOMAIN functions \ {index} |-> functions[k]]
    /\ current_function' = last_key(functions')
    /\ slots' = remove_slot(slots, index)
    /\ UNCHANGED editor_graph
    /\ PanelEdited

\* the selectable label of a function: the editor's graph is stored under
\* current_function, the graph of the selected function goes to the editor
\* and leaves a default graph behind
SwitchFunction(index) ==
    /\ current_function \in DOMAIN functions
    /\ LET taken == functions[index].graph
           left == [functions EXCEPT ![index].graph = NodeGraphExample_default]
       IN /\ editor_graph' = taken
          /\ functions' = [left EXCEPT ![current_function].graph = editor_graph]
    /\ current_function' = index
    /\ UNCHANGED slots
    /\ PanelEdited

\* the functions the combo box of a Function node offers in the editor's graph
Selectable ==
    {x \in DOMAIN functions :
        /\ ~(DISABLE_RECURSIVE_FUNCTIONS /\ editor_graph.graph_id = x)
        /\ main_graph_id # x}

\* the node finder creates a node in the editor's graph: an Enter node, or a
\* Function node set to a function of its combo box
AddEditorNode(template) ==
    /\ Len(editor_graph.nodes) < MaxPanelNodes
    /\ template.kind = "Function" => template.fn \in Selectable
    /\ editor_graph' = build_node(editor_graph, template, functions)
    /\ UNCHANGED <<functions, current_function, slots>>
    /\ PanelEdited

\* the catalog with the editor's graph put where current_function says
Catalog == [functions EXCEPT ![current_function].graph = editor_graph]

\* the text the dialog's name field is left with
DialogName == <<"f">>

\* the panel and the editor: functions are made under the dialog's name
NextPanel ==
    \/ CreateFunction(DialogName)
    \/ \E index \in FunctionIds : RemoveFunction(index)
    \/ \E index \in FunctionIds : SwitchFunction(index)
    \/ \E template \in {NodeEnter} \cup {NodeFunction(x) : x \in FunctionIds} :
          AddEditorNode(template)
    \/ CompileOn(Catalog, NodeEnter)

SpecPanel == InitPanel /\ [][NextPanel]_vars

\* the panel alone: functions are made, renamed, selected and removed
NextNames ==
    \/ \E typed \in NameInputs : CreateFunction(typed)
    \/ \E index \in FunctionIds, typed \in NameInputs : RenameFunction(index, typed)
    \/ \E index \in FunctionIds : RemoveFunction(index)
    \/ \E index \in FunctionIds : SwitchFunction(index)

SpecNames == InitPanel /\ [][NextNames]_vars

----------------------------------------------------------------------------
(* Vocabulary of the properties *)

MainGraph == functions[main_graph_id].graph

\* number of Enter nodes in the graph of function f
EnterCount(f) ==
    Cardinality({n \in DOMAIN functions[f].graph.nodes :
                    functions[f].graph.nodes[n].template = NodeEnter})

EnterTotal == EnterCount(MainId) + EnterCount(FnId)

\* a compile call has been made on the present catalog
Compiled == runs >= 1

ErrorResult(message) == [kind |-> "Err", tag |-> "String", value |-> <<message>>]

\* the local-declaration statement of one variable of Main
Declaration(v) ==
    <<"local ", v.name, " = ",
      IF v.typ = String THEN "\"" \o v.value \o "\"" ELSE v.value, "\n">>

RECURSIVE Prelude(_)
Prelude(variables) ==
    IF variables = <<>> THEN <<>>
    ELSE Declaration(Head(variables)) \o Prelude(Tail(variables))

\* positions of the write statements of a text
Writes(text) == {i \in DOMAIN text : text[i] = "io.write("}

\* Main is Enter -> Print, the text input of Print unconnected
EnterPrintGraph ==
    /\ Len(MainGraph.nodes) = 2
    /\ EnterCount(FnId) = 0
    /\ \E e, p \in DOMAIN MainGraph.nodes :
          /\ MainGraph.nodes[e].template = NodeEnter
          /\ MainGraph.nodes[p].template = NodePrint
          /\ MainGraph.connections[MainGraph.nodes[p].inputs[1]] = MainGraph.nodes[e].outputs[1]
          /\ MainGraph.connections[MainGraph.nodes[p].inputs[2]] = NoId

\* the inline string of the Print node of an Enter -> Print graph
PrintedString ==
    LET p == CHOOSE n \in DOMAIN MainGraph.nodes : MainGraph.nodes[n].template = NodePrint
    IN MainGraph.inputs[MainGraph.nodes[p].inputs[2]].value

\* Main is Enter -> Ask -> Print, the text input of Print fed by Ask's Answer
EnterAskPrintGraph ==
    /\ Len(MainGraph.nodes) = 3
    /\ EnterCount(FnId) = 0
    /\ \E e, a, p \in DOMAIN MainGraph.nodes :
          /\ MainGraph.nodes[e].template = NodeEnter
          /\ MainGraph.nodes[a].template = NodeAsk
          /\ MainGraph.nodes[p].template = NodePrint
          /\ MainGraph.connections[MainGraph.nodes[a].inputs[1]] = MainGraph.nodes[e].outputs[1]
          /\ MainGraph.connections[MainGraph.nodes[a].inputs[2]] = NoId
          /\ MainGraph.connections[MainGraph.nodes[p].inputs[1]] = MainGraph.nodes[a].outputs[1]
          /\ MainGraph.connections[MainGraph.nodes[p].inputs[2]] = MainGraph.nodes[a].outputs[2]

\* the Answer output of the Ask node of an Enter -> Ask -> Print graph
AnswerOutput ==
    LET a == CHOOSE n \in DOMAIN MainGraph.nodes : MainGraph.nodes[n].template = NodeAsk
    IN MainGraph.nodes[a].outputs[2]

----------------------------------------------------------------------------
(* Properties *)

\* C1: when validation passes and generation succeeds, compile returns the
\* generated Script text: the declaration prelude of Main's variables, one
\* declaration per variable in order, followed by the body compiled from
\* Main's Enter node.
C1_ReturnsPreludeAndBody ==
    (Compiled /\ compile_result.kind = "Ok") =>
        /\ compile_result.tag = "String"
        /\ compile_result.value = Prelude(functions[main_graph_id].variables_list) \o script

\* C2: a catalog in which no graph holds an Enter node compiles to the error
\* "You don't have any Enter node", never to a success value.
C2_MissingEnterNode ==
    (Compiled /\ EnterTotal = 0) =>
        compile_result = ErrorResult("You don't have any Enter node")

C2_Witness ==
    /\ Compiled /\ EnterTotal = 0
    /\ Len(MainGraph.nodes) >= 1 /\ Len(functions[FnId].graph.nodes) >= 1

\* C3: two or more Enter nodes in Main and none elsewhere compile to the
\* error "You have Too many Enter Nodes".
C3_MultipleEnterInMain ==
    (Compiled /\ EnterCount(MainId) >= 2 /\ EnterCount(FnId) = 0) =>
        compile_result = ErrorResult("You have Too many Enter Nodes")

C3_Witness ==
    Compiled /\ EnterCount(MainId) >= 2 /\ EnterCount(FnId) = 0

\* C4: exactly one Enter node in the whole catalog, lying in a function other
\* than Main, compiles to the error "A Enter node in a function".
C4_EnterInFunction ==
    (Compiled /\ EnterTotal = 1 /\ EnterCount(MainId) = 0) =>
        compile_result = ErrorResult("A Enter node in a function")

C4_Witness ==
    Compiled /\ EnterTotal = 1 /\ EnterCount(MainId) = 0 /\ Len(MainGraph.nodes) >= 1

\* C5: more than one Enter node in total, counted over all functions (also
\* one in Main together with one in another function), compiles to the error
\* "You have Too many Enter Nodes".
C5_MultipleEnterAnywhere ==
    (Compiled /\ EnterTotal > 1) =>
        compile_result = ErrorResult("You have Too many Enter Nodes")

C7_NeverAborts ==
    (Compiled /\ EnterCount(MainId) = 1 /\ EnterCount(FnId) = 0) =>
        compile_result.kind \in {"Ok", "Err"}

C9_PrintLiteral ==
    (Compiled /\ EnterPrintGraph) =>
        /\ compile_result.kind = "Ok"
        /\ Cardinality(Writes(script)) = 1
        /\ \A i \in Writes(script) :
              /\ i + 2 <= Len(script)
              /\ script[i + 1] = "\"" \o PrintedString \o "\""
              /\ script[i + 2] = ")"

C9_Witness ==
    Compiled /\ EnterPrintGraph /\ PrintedString = "hello"

\* C10: for Main = Enter -> Ask -> Print with the text input of Print fed by
\* Ask's Answer output, the generated text has a read-binding statement that
\* introduces the temporary of the Answer output and, later, a write statement
\* whose argument is exactly that temporary.
C10_AskBindsThenPrintReads ==
    (Compiled /\ EnterAskPrintGraph) =>
        /\ compile_result.kind = "Ok"
        /\ AnswerOutput \in DOMAIN outputs_cache
        /\ \E i, j \in DOMAIN script :
              /\ i < j /\ j + 1 <= Len(script)
              /\ script[i] = "local " /\ script[i + 1] = outputs_cache[AnswerOutput]
              /\ script[j] = "io.write(" /\ script[j + 1] = outputs_cache[AnswerOutput]

\* the If node of the graph with a two-way branch, and its ports in
\* declaration order: outputs Continue, If, Else; inputs execution, condition
IfNode == CHOOSE n \in DOMAIN MainGraph.nodes : MainGraph.nodes[n].template = NodeIf

\* the nodes whose execution input is fed by output o
Followers(o) ==
    {MainGraph.inputs[i].node : i \in {j \in DOMAIN MainGraph.connections :
                                          MainGraph.connections[j] = o}}

\* the Print node fed by the k-th output of the If node, or none
BranchPrint(k) ==
    LET fs == Followers(MainGraph.nodes[IfNode].outputs[k])
    IN IF Cardinality(fs) = 1 /\ (\A n \in fs : MainGraph.nodes[n].template = NodePrint)
       THEN CHOOSE n \in fs : TRUE
       ELSE NoId

\* the operand of a Print node whose text input is unconnected
Literal(p) == inline_text(MainGraph.inputs[MainGraph.nodes[p].inputs[2]])

Positions(text, token) == {i \in DOMAIN text : text[i] = token}

\* Enter runs into the If node, whose If and Else outputs run into one Print
\* node each
BranchBothWays ==
    /\ Followers(MainGraph.nodes[1].outputs[1]) = {IfNode}
    /\ BranchPrint(2) # NoId
    /\ BranchPrint(3) # NoId

\* C11: when the If and the Else output of an If node each run into a Print
\* node, continue output connected or not, the fragment of either Print node
\* occurs once in the script, inside the text of the branch statement: the
\* then fragment in the first (do ...), the else fragment in the second one.
C11_BranchesEmbedded ==
    (Compiled /\ BranchBothWays) =>
        /\ compile_result.kind = "Ok"
        /\ \E a, b, c \in DOMAIN script :
              /\ script[a] = " 1) (do " /\ script[b] = ") (do " /\ script[c] = "))"
              /\ \E p, q \in DOMAIN script :
                    /\ Positions(script, Literal(BranchPrint(2))) = {p}
                    /\ Positions(script, Literal(BranchPrint(3))) = {q}
                    /\ a < p /\ p < b /\ b < q /\ q < c

\* the case of C11 with the continue output connected too
C11_ContinueConnected ==
    (Compiled /\ BranchBothWays /\ Followers(MainGraph.nodes[IfNode].outputs[1]) # {}) =>
        C11_BranchesEmbedded

\* a frame has evaluated the active node
Evaluated == active_node # NoId

\* the nodes whose output feeds an input of node n
Sources(n) ==
    {MainGraph.outputs[MainGraph.connections[i]].node :
        i \in {j \in DOMAIN MainGraph.connections :
                  MainGraph.inputs[j].node = n /\ MainGraph.connections[j] # NoId}}

\* number of times the output of node n has been computed in the frame
TimesComputed(n) ==
    Cardinality({k \in DOMAIN evaluation.mem.log : evaluation.mem.log[k] = n})

\* the active node and two of its sources are all fed by one further node
Diamond ==
    \E s, x, y \in DOMAIN MainGraph.nodes :
        /\ Cardinality({s, x, y, active_node}) = 4
        /\ {x, y} \subseteq Sources(active_node)
        /\ s \in Sources(x) /\ s \in Sources(y)

\* C12: in an evaluation call that returns, the output of every node is
\* computed at most once, whatever the fan-out of the outputs; the nodes the
\* active node reads from, and the active node itself, are computed exactly
\* once.
C12_EvaluatedOnce ==
    (Evaluated /\ evaluation.st = "ok") =>
        /\ \A n \in DOMAIN MainGraph.nodes : TimesComputed(n) <= 1
        /\ \A n \in {active_node} \cup Sources(active_node) : TimesComputed(n) = 1

C12_Witness ==
    Evaluated /\ evaluation.st = "ok" /\ Diamond

\* the nodes node n depends on, over any number of connections
RECURSIVE Ancestors(_, _)
Ancestors(found, k) ==
    IF k = 0 THEN found
    ELSE Ancestors(found \cup UNION {Sources(m) : m \in found}, k - 1)

\* the output of the active node is wired, directly or through other nodes,
\* back into one of its own inputs
OnDataCycle ==
    active_node \in Ancestors(Sources(active_node), Len(MainGraph.nodes))

\* C13: evaluating a node whose output is wired back, directly or through
\* other nodes, into one of its own inputs returns an error (CycleDetected,
\* naming the connection that closes the loop): the call neither returns a
\* value nor follows the loop without bound.
C13_CycleDetected ==
    (Evaluated /\ OnDataCycle) => evaluation.st = "err"

\* the steps of the walk at which a node's statement is reached
Hooks == {k \in DOMAIN walk_log : walk_log[k].ev = "hook"}

\* the non-execution inputs of a node, in port order
RECURSIVE DataInputs(_)
DataInputs(input_ids) ==
    IF input_ids = <<>> THEN <<>>
    ELSE (IF MainGraph.inputs[Head(input_ids)].typ = Execution THEN <<>>
          ELSE <<Head(input_ids)>>) \o DataInputs(Tail(input_ids))

\* the text an input resolves to: its inline value, or the temporary of the
\* output it is connected to
Resolved(y) ==
    IF MainGraph.connections[y] = NoId THEN inline_text(MainGraph.inputs[y])
    ELSE var_name(MainGraph.connections[y])

\* C14: the operand list a node's statement receives has one entry per
\* non-execution input of the node, in port order; entry i is the text the
\* i-th such input resolves to, connected or not.
C14_OperandPerInput ==
    Compiled =>
        \A k \in Hooks :
            LET ins == DataInputs(MainGraph.nodes[walk_log[k].node].inputs)
            IN /\ Len(walk_log[k].inputs) = Len(ins)
               /\ \A i \in DOMAIN ins : walk_log[k].inputs[i] = Resolved(ins[i])

\* the outputs of a node of one kind (execution or not), in port order
RECURSIVE OutputsOf(_, _)
OutputsOf(output_ids, execution) ==
    IF output_ids = <<>> THEN <<>>
    ELSE (IF (MainGraph.outputs[Head(output_ids)].typ = Execution) = execution
          THEN <<Head(output_ids)>> ELSE <<>>) \o OutputsOf(Tail(output_ids), execution)

\* C15: the list of branch scripts a node's statement receives has one entry
\* per execution output of the node, in port order; entry k is the script of
\* the node the k-th execution output runs into (never empty: it holds the
\* separator), and the empty script when that output is unconnected.
C15_BranchPerOutput ==
    Compiled =>
        \A k \in Hooks :
            LET outs == OutputsOf(MainGraph.nodes[walk_log[k].node].outputs, TRUE)
            IN /\ Len(walk_log[k].executions) = Len(outs)
               /\ \A i \in DOMAIN outs :
                     (walk_log[k].executions[i] = <<>>) <=> (Followers(outs[i]) = {})

\* the step at which the call that reaches hook k entered its node
VisitOf(k) ==
    CHOOSE v \in 1..k :
        /\ walk_log[v].ev = "visit" /\ walk_log[v].node = walk_log[k].node
        /\ \A w \in (v + 1)..k :
               ~(walk_log[w].ev = "visit" /\ walk_log[w].node = walk_log[k].node)

\* the non-execution outputs of the node of step k
DataOutputs(k) ==
    {y \in DOMAIN MainGraph.outputs :
        MainGraph.outputs[y].node = walk_log[k].node /\ MainGraph.outputs[y].typ # Execution}

Injective(cache) ==
    \A a, b \in DOMAIN cache : a # b => cache[a] # cache[b]

\* C16: from the first node compiled downstream of a node N up to the
\* statement of N, the cache holds a temporary name for every non-execution
\* output of N; and no two outputs ever hold the same name.
C16_OutputsRegisteredFirst ==
    Compiled =>
        /\ \A k \in Hooks : \A j \in (VisitOf(k) + 1)..k :
               DataOutputs(k) \subseteq DOMAIN walk_log[j].cache
        /\ \A j \in DOMAIN walk_log : Injective(walk_log[j].cache)

C16_Witness ==
    /\ Compiled
    /\ \E k \in Hooks :
          /\ DataOutputs(k) # {}
          /\ VisitOf(k) + 1 < k
          /\ Cardinality(DOMAIN walk_log[k].cache) >= 2

\* the temporary names of the outputs of Main's graph
TempNames == {var_name(o) : o \in DOMAIN MainGraph.outputs}

\* position i of the text holds a temporary that is read, not bound
Operand(text, i) == text[i] \in TempNames /\ (i = 1 \/ text[i - 1] # "local ")

\* C17: in a generated script every temporary that is read as an operand is
\* bound earlier in the text, by a "local <temporary> = ..." statement.
C17_BoundBeforeUse ==
    (Compiled /\ compile_result.kind = "Ok") =>
        \A i \in DOMAIN script :
            Operand(script, i) =>
                \E j \in 1..(i - 2) : script[j] = "local " /\ script[j + 1] = script[i]

\* no execution output of Main's graph feeds two inputs
NoFanOut ==
    \A o \in DOMAIN MainGraph.outputs :
        MainGraph.outputs[o].typ = Execution => Cardinality(Followers(o)) <= 1

\* the nodes the execution edges lead through from node n, in order
RECURSIVE ChainFrom(_, _)
ChainFrom(n, k) ==
    LET next == Followers(MainGraph.nodes[n].outputs[1])
    IN IF k = 0 \/ next = {} THEN <<n>>
       ELSE <<n>> \o ChainFrom(CHOOSE m \in next : TRUE, k - 1)

\* the fragment of a node of the chain: a write of its operand for a Print
\* node, nothing for an Enter or a Function node
Fragment(n) ==
    IF MainGraph.nodes[n].template = NodePrint
    THEN <<"io.write(", Resolved(MainGraph.nodes[n].inputs[2]), ")">>
    ELSE <<>>

\* the fragments of the nodes of a chain, each followed by the separator
RECURSIVE ChainText(_)
ChainText(chain) ==
    IF chain = <<>> THEN <<"default">>
    ELSE Fragment(Head(chain)) \o <<" -- ">> \o ChainText(Tail(chain))

EnterNode == CHOOSE n \in DOMAIN MainGraph.nodes : MainGraph.nodes[n].template = NodeEnter

\* C18: when the execution edges from Enter form a chain Enter -> N1 -> ... ->
\* Nk, the script is the fragments of N1 .. Nk, once each and in chain order,
\* and holds the fragment of no other node.
C18_ChainInOrder ==
    (Compiled /\ compile_result.kind = "Ok" /\ NoFanOut) =>
        script = ChainText(ChainFrom(EnterNode, Len(MainGraph.nodes)))

C18_Witness ==
    /\ Compiled /\ compile_result.kind = "Ok" /\ NoFanOut
    /\ LET chain == ChainFrom(EnterNode, Len(MainGraph.nodes))
       IN /\ Len(chain) = 3
          /\ Fragment(chain[2]) # <<>> /\ Fragment(chain[3]) # <<>>
          /\ Fragment(chain[2]) # Fragment(chain[3])

\* C20: within a compile call an output that has a text in the cache keeps
\* that text at every later step of the call and in the cache the call ends
\* with; the first step of every call finds the cache empty.
C20_WriteOnce ==
    Compiled =>
        /\ \A k \in DOMAIN walk_log :
              LET later == IF k < Len(walk_log) THEN walk_log[k + 1].cache ELSE outputs_cache
              IN \A y \in DOMAIN walk_log[k].cache :
                    y \in DOMAIN later /\ later[y] = walk_log[k].cache[y]
        /\ walk_log # <<>> => DOMAIN walk_log[1].cache = {}

C20_Witness ==
    /\ runs >= 2 /\ compile_result.kind = "Ok"
    /\ Cardinality(DOMAIN outputs_cache) >= 2
    /\ \E k \in DOMAIN walk_log :
          k + 2 <= Len(walk_log) /\ DOMAIN walk_log[k].cache # {}

\* the walk over the execution edges returns: every node but Enter has one
\* execution input, which holds one connection, so no node is entered twice
WalkTerminates == Compiled => compile_result.tag # "overflow"

\* C19: a compile call returns on every catalog, and so does the resolution
\* of the data side: neither the walk from Enter nor the evaluation of a
\* node's inputs recurses without bound, whatever cycles the connections
\* form.
C19_Terminates ==
    /\ WalkTerminates
    /\ Evaluated => evaluation.st # "overflow"

\* the nodes of Main's graph of one template
NodesOf(template) ==
    {n \in DOMAIN MainGraph.nodes : MainGraph.nodes[n].template = template}

\* the nodes the walk reaches over the first connection of every node
Chain == ChainFrom(EnterNode, Len(MainGraph.nodes))

\* Main is a chain from Enter that runs through a Function node of the
\* function new_function and holds no Print node, while the graph of
\* new_function holds a Print node
CallsPrintingFunction ==
    /\ NoFanOut
    /\ NodesOf(NodePrint) = {}
    /\ \E k \in DOMAIN Chain : MainGraph.nodes[Chain[k]].template = NodeFunction(FnId)
    /\ \E n \in DOMAIN functions[FnId].graph.nodes :
          functions[FnId].graph.nodes[n].template = NodePrint

\* C21: the statement of a Function node that references an existing
\* function is the script of the callee's graph: when the callee's graph
\* writes, the script of a caller that runs through the Function node holds
\* that write.
C21_CalleeInlined ==
    (Compiled /\ compile_result.kind = "Ok" /\ CallsPrintingFunction) =>
        Writes(script) # {}

\* C22: a compile call whose walk reaches a Function node without a
\* reference returns the error UnknownFunctionReference and no script.
C22_UnknownFunctionReference ==
    (Compiled /\ EnterCount(MainId) = 1 /\ EnterCount(FnId) = 0
        /\ \E k \in DOMAIN walk_log :
               MainGraph.nodes[walk_log[k].node].template = NodeFunction(NoId)) =>
        compile_result = ErrorResult("UnknownFunctionReference")

\* C25: the error of the Enter validation is decided by what the catalog
\* holds, whatever the places of the nodes in the scan: two or more Enter
\* nodes in Main give "You have Too many Enter Nodes" whatever the other
\* functions hold; at most one in Main and one elsewhere give "A Enter node
\* in a function"; none anywhere gives "You don't have any Enter node".
C25_ErrorKindByContent ==
    Compiled =>
        /\ EnterCount(MainId) >= 2 => compile_result = ErrorResult(TooManyEnterNodes)
        /\ (EnterCount(MainId) <= 1 /\ EnterCount(FnId) >= 1) =>
               compile_result = ErrorResult(EnterInAFunction)
        /\ EnterTotal = 0 => compile_result = ErrorResult(NoEnterNode)

C25_Witness ==
    Compiled /\ EnterCount(MainId) = 2 /\ EnterCount(FnId) = 1

\* the inputs of a graph that output o feeds
Fed(graph, o) == {j \in DOMAIN graph.connections : graph.connections[j] = o}

\* the wires a connect event can complete in a graph: an output and an input
\* of one data type
Wires(graph, typ) ==
    {w \in (DOMAIN graph.outputs) \X (DOMAIN graph.inputs) :
        graph.outputs[w[1]].typ = typ /\ graph.inputs[w[2]].typ = typ}

C28_SingleConsumer ==
    \A f \in FunctionIds :
       LET graph == functions[f].graph
       IN /\ \A o \in DOMAIN graph.outputs :
                graph.outputs[o].typ = SingleConsumerType => Cardinality(Fed(graph, o)) <= 1
          /\ \A w \in Wires(graph, SingleConsumerType) :
                LET after == connect(graph, w[1], w[2])
                IN /\ Fed(after, w[1]) = {w[2]}
                   /\ \A j \in DOMAIN graph.connections :
                          (j # w[2] /\ graph.connections[j] # w[1]) =>
                              after.connections[j] = graph.connections[j]

\* a single-consumer output feeds an input while another input of its type
\* is there to be connected, and an output of another type feeds two inputs
C28_Witness ==
    /\ \E w \in Wires(MainGraph, SingleConsumerType) :
          Fed(MainGraph, w[1]) # {} /\ w[2] \notin Fed(MainGraph, w[1])
    /\ \E o \in DOMAIN MainGraph.outputs : Cardinality(Fed(MainGraph, o)) = 2

\* the Enter nodes of function k in a catalog
EnterNodes(fns, k) ==
    {n \in DOMAIN fns[k].graph.nodes : fns[k].graph.nodes[n].template = NodeEnter}

\* a catalog the Enter validation accepts: one Enter node, in Main
ValidEnter(fns) ==
    /\ main_graph_id \in DOMAIN fns
    /\ \A k \in DOMAIN fns :
          Cardinality(EnterNodes(fns, k)) = (IF k = main_graph_id THEN 1 ELSE 0)

\* the graph of some function holds a Function node set to that function
SelfReference(fns) ==
    \E k \in DOMAIN fns :
       \E n \in DOMAIN fns[k].graph.nodes : fns[k].graph.nodes[n].template = NodeFunction(k)

\* C23: with recursion disabled, compiling a catalog in which the graph of a
\* function holds a Function node set to that same function returns the error
\* RecursiveFunctionDisabled, whatever the editor offered in its combo box.
C23_RecursionRejected ==
    (Compiled /\ DISABLE_RECURSIVE_FUNCTIONS /\ ValidEnter(Catalog) /\ SelfReference(Catalog)) =>
        compile_result = ErrorResult("RecursiveFunctionDisabled")

\* the graph in the editor, and the graphs the catalog holds for the other
\* functions, are the graphs made for these functions
OwnGraphs ==
    /\ editor_graph.graph_id = current_function
    /\ \A k \in DOMAIN functions \ {current_function} : functions[k].graph.graph_id = k

\* C26: selecting a function, the current one included, keeps every function
\* with its own graph: a step that removes no function leads from a state
\* where the editor holds the graph of the current function and the catalog
\* the graphs of the others to a state of that kind.
C26_SwitchKeepsGraphs ==
    [][(OwnGraphs /\ DOMAIN functions \subseteq DOMAIN functions') => OwnGraphs']_vars

\* C27: removing a function keeps every remaining function with its own
\* graph: a step that removes a function leads from a state where the editor
\* holds the graph of the current function and the catalog the graphs of the
\* others to a state of that kind.
C27_RemoveKeepsGraphs ==
    [][(OwnGraphs /\ ~(DOMAIN functions \subseteq DOMAIN functions')) => OwnGraphs']_vars

\* the names of the functions of the catalog
FunctionNames == {functions[k].name : k \in DOMAIN functions}

\* the candidates name, name_1, name_2, ... of a typed name
Candidate(typed, t) ==
    IF t = 0 THEN replace_spaces(typed) ELSE name_times(replace_spaces(typed), t)

\* C29: the names of the functions are pairwise distinct and hold no space,
\* and for every name typed uniquify_name_slot returns the first of name,
\* name_1, name_2, ... (spaces turned into underscores) no function has.
C29_NamesDistinct ==
    /\ \A k \in DOMAIN functions, l \in DOMAIN functions :
          k # l => functions[k].name # functions[l].name
    /\ \A k \in DOMAIN functions :
          \A i \in DOMAIN functions[k].name : functions[k].name[i] # " "
    /\ \A typed \in NameInputs :
          \E t \in 0..Cardinality(FunctionNames) :
             /\ uniquify_name_slot(typed, functions) = Candidate(typed, t)
             /\ Candidate(typed, t) \notin FunctionNames
             /\ \A u \in 0..(t - 1) : Candidate(typed, u) \in FunctionNames

\* a typed name with a space has met its underscore form twice
C29_Witness ==
    /\ <<"f", "_", "1">> \in FunctionNames
    /\ <<"f", "_", "1", "_", "1">> \in FunctionNames
    /\ uniquify_name_slot(<<"f", " ", "1">>, functions) = <<"f", "_", "1", "_", "2">>

\* C30: the catalog always holds Main, which is not removable, and
\* current_function always names a function of the catalog: the choice of
\* the current function after a removal never finds the catalog empty.
C30_MainStays ==
    /\ MainId \in DOMAIN functions
    /\ ~functions[MainId].removable
    /\ current_function \in DOMAIN functions

\* two functions have been removed, the current one among them, and Main is
\* what is left
C30_Witness ==
    /\ DOMAIN functions = {MainId}
    /\ Len(slots.free) = 2
    /\ editor_graph.graph_id \notin {NoId, MainId}

============================================================================
